---- MODULE Spec2Model ----
(***************************************************************************)
(* Calendar availability and smart-scheduling engine of GlowGo             *)
(* (glowgo-backend/services/tools/calendar_tools.py).                      *)
(*                                                                         *)
(* Time is counted in whole minutes.  An aware datetime is a record        *)
(* [t, off]: t is the instant, in minutes of the reference timezone's      *)
(* wall clock (America/New_York, taken at a fixed UTC offset), and off is  *)
(* the datetime's own UTC offset minus the reference one, so that its      *)
(* wall-clock reading is t + off.  A text is a tuple of one-character      *)
(* strings, so that lower-casing and substring tests are computed.         *)
(***************************************************************************)
EXTENDS Integers, Sequences, FiniteSets, TLC

VARIABLES
    target_date,        \* argument target_date: NoTarget or a local date (day number)
    service_type,       \* argument service_type
    run,                \* 1 for the first invocation, 2 for a repeated one
    prev,               \* the result returned by the first invocation
    pc,                 \* position of the invocation in the function body
    user,               \* what the user/token store answered
    provider_calls,     \* how many times events().list().execute() was called
    events,             \* events_result['items']
    access,             \* what the calendar provider answered
    now,                \* datetime.now(tz) of analyze_calendar_for_smart_suggestions
    slot_now,           \* datetime.now(tz) of _find_available_slots
    i,                  \* index of the normalisation loop over events
    processed_events,   \* local processed_events
    important_events,   \* local important_events
    j,                  \* index of the day-before loop over important_events
    result,             \* the result dict
    detect              \* the invocation of detect_important_events_with_llm

vars == <<target_date, service_type, run, prev, pc, user, provider_calls, events,
          access, now, slot_now, i, processed_events, important_events, j, result,
          detect>>

(***************************************************************************)
(* Texts                                                                   *)
(***************************************************************************)
UpperCase == <<"A","B","C","D","E","F","G","H","I","J","K","L","M",
               "N","O","P","Q","R","S","T","U","V","W","X","Y","Z">>

LowerCase == <<"a","b","c","d","e","f","g","h","i","j","k","l","m",
               "n","o","p","q","r","s","t","u","v","w","x","y","z">>

LowerChar(c) ==
    IF \E k \in 1..26 : UpperCase[k] = c
    THEN LowerCase[CHOOSE k \in 1..26 : UpperCase[k] = c]
    ELSE c

\* str.lower()
Lower(s) == [k \in 1..Len(s) |-> LowerChar(s[k])]

\* kw in s
Contains(s, kw) ==
    \E p \in 0..(Len(s) - Len(kw)) : \A k \in 1..Len(kw) : s[p + k] = kw[k]

AnyIn(kws, s) == \E k \in 1..Len(kws) : Contains(s, kws[k])

IMPORTANT_EVENT_KEYWORDS == <<
    <<"m", "e", "e", "t", "i", "n", "g">>,
    <<"i", "n", "t", "e", "r", "v", "i", "e", "w">>,
    <<"p", "r", "e", "s", "e", "n", "t", "a", "t", "i", "o", "n">>,
    <<"c", "o", "n", "f", "e", "r", "e", "n", "c", "e">>,
    <<"p", "i", "t", "c", "h">>,
    <<"c", "l", "i", "e", "n", "t">>,
    <<"n", "e", "t", "w", "o", "r", "k", "i", "n", "g">>,
    <<"b", "o", "a", "r", "d", " ", "m", "e", "e", "t", "i", "n", "g">>,
    <<"r", "e", "v", "i", "e", "w">>,
    <<"d", "e", "m", "o">>,
    <<"w", "e", "d", "d", "i", "n", "g">>,
    <<"b", "a", "b", "y", " ", "s", "h", "o", "w", "e", "r">>,
    <<"b", "r", "i", "d", "a", "l", " ", "s", "h", "o", "w", "e", "r">>,
    <<"b", "i", "r", "t", "h", "d", "a", "y", " ", "p", "a", "r", "t", "y">>,
    <<"e", "n", "g", "a", "g", "e", "m", "e", "n", "t">>,
    <<"a", "n", "n", "i", "v", "e", "r", "s", "a", "r", "y">>,
    <<"g", "r", "a", "d", "u", "a", "t", "i", "o", "n">>,
    <<"g", "a", "l", "a">>,
    <<"f", "u", "n", "d", "r", "a", "i", "s", "e", "r">>,
    <<"d", "a", "t", "e">>,
    <<"d", "a", "t", "e", " ", "n", "i", "g", "h", "t">>,
    <<"d", "i", "n", "n", "e", "r", " ", "p", "a", "r", "t", "y">>,
    <<"r", "e", "c", "e", "p", "t", "i", "o", "n">>,
    <<"c", "o", "m", "p", "e", "t", "i", "t", "i", "o", "n">>,
    <<"r", "e", "c", "i", "t", "a", "l">>,
    <<"p", "e", "r", "f", "o", "r", "m", "a", "n", "c", "e">>,
    <<"p", "h", "o", "t", "o", "s", "h", "o", "o", "t">>,
    <<"p", "h", "o", "t", "o">>,
    <<"v", "i", "d", "e", "o">>,
    <<"r", "e", "c", "o", "r", "d", "i", "n", "g">>,
    <<"a", "u", "d", "i", "t", "i", "o", "n">>,
    <<"s", "h", "o", "w">>,
    <<"f", "a", "m", "i", "l", "y", " ", "d", "i", "n", "n", "e", "r">>,
    <<"r", "e", "u", "n", "i", "o", "n">>,
    <<"h", "o", "l", "i", "d", "a", "y">>,
    <<"t", "h", "a", "n", "k", "s", "g", "i", "v", "i", "n", "g">>,
    <<"c", "h", "r", "i", "s", "t", "m", "a", "s">>,
    <<"e", "a", "s", "t", "e", "r">>,
    <<"p", "a", "s", "s", "o", "v", "e", "r">>,
    <<"n", "e", "w", " ", "y", "e", "a", "r">>,
    <<"p", "a", "r", "t", "y">> >>

CelebrationKeywords == <<<<"w", "e", "d", "d", "i", "n", "g">>, <<"b", "r", "i", "d", "a", "l">>, <<"e", "n", "g", "a", "g", "e", "m", "e", "n", "t">>>>

FirstImpressionKeywords == <<<<"i", "n", "t", "e", "r", "v", "i", "e", "w">>, <<"p", "i", "t", "c", "h">>, <<"c", "l", "i", "e", "n", "t">>, <<"b", "o", "a", "r", "d">>>>

RomanticKeywords == <<<<"d", "a", "t", "e">>, <<"a", "n", "n", "i", "v", "e", "r", "s", "a", "r", "y">>>>

OnCameraKeywords == <<<<"p", "h", "o", "t", "o">>, <<"v", "i", "d", "e", "o">>, <<"p", "e", "r", "f", "o", "r", "m", "a", "n", "c", "e">>>>

SocialKeywords == <<<<"p", "a", "r", "t", "y">>, <<"g", "a", "l", "a">>, <<"d", "i", "n", "n", "e", "r">>>>

GatheringKeywords == <<<<"m", "e", "e", "t", "i", "n", "g">>, <<"c", "o", "n", "f", "e", "r", "e", "n", "c", "e">>, <<"p", "r", "e", "s", "e", "n", "t", "a", "t", "i", "o", "n">>>>


\* _get_importance_reason
_get_importance_reason(event_name_lower) ==
    IF AnyIn(CelebrationKeywords, event_name_lower)
    THEN "Special celebration where you'll want to look your absolute best"
    ELSE IF AnyIn(FirstImpressionKeywords, event_name_lower)
    THEN "Professional event where first impressions matter"
    ELSE IF AnyIn(RomanticKeywords, event_name_lower)
    THEN "Romantic occasion where looking great is a must"
    ELSE IF AnyIn(OnCameraKeywords, event_name_lower)
    THEN "You'll be photographed or on camera"
    ELSE IF AnyIn(SocialKeywords, event_name_lower)
    THEN "Social event with many people"
    ELSE IF AnyIn(GatheringKeywords, event_name_lower)
    THEN "Professional gathering where you'll meet important people"
    ELSE "Important event where looking polished matters"


WeddingReception == <<"W", "e", "d", "d", "i", "n", "g", " ", "R", "e", "c", "e", "p", "t", "i", "o", "n">>


TeamStandup == <<"T", "e", "a", "m", " ", "S", "t", "a", "n", "d", "u", "p">>


Busy == <<"B", "u", "s", "y">>

TeamDinner == <<"T", "e", "a", "m", " ", "D", "i", "n", "n", "e", "r">>

(***************************************************************************)
(* Datetimes                                                               *)
(***************************************************************************)
\* wall-clock reading of an aware datetime, in minutes
Wall(dt) == dt.t + dt.off

\* datetime.date()
DateOf(dt) == Wall(dt) \div (24 * 60)

\* datetime.hour
HourOf(dt) == (Wall(dt) % (24 * 60)) \div 60

\* datetime.minute
MinuteOf(dt) == Wall(dt) % 60

\* dt + timedelta(minutes=m)
Plus(dt, m) == [dt EXCEPT !.t = @ + m]

\* dt.replace(hour=h, minute=m): the wall clock changes, tzinfo is kept
Replace(dt, h, m) == [dt EXCEPT !.t = DateOf(dt) * (24 * 60) + h * 60 + m - dt.off]

\* tz.localize(naive) for a naive wall-clock reading
Localize(wall) == [t |-> wall, off |-> 0]

\* strftime("%I:%M %p"): 12-hour clock, the date is not part of the text;
\* zero tells whether the text starts with the padding "0"
strftime_IMp(dt) ==
    [h    |-> IF HourOf(dt) % 12 = 0 THEN 12 ELSE HourOf(dt) % 12,
     m    |-> MinuteOf(dt),
     p    |-> IF HourOf(dt) < 12 THEN "AM" ELSE "PM",
     zero |-> ~(HourOf(dt) % 12 \in {0, 10, 11})]

\* .lstrip("0") of such a text
lstrip0(txt) == [txt EXCEPT !.zero = FALSE]

\* strftime("%A, %B %d"): weekday, month and day of month of the local date
\* (no year; the dates of the model lie within one week)
strftime_ABd(dt) == DateOf(dt)

(***************************************************************************)
(* Configuration                                                           *)
(***************************************************************************)
SERVICE_DURATIONS ==
    [haircut |-> 60, nails |-> 45, manicure |-> 30, pedicure |-> 45,
     massage |-> 90, facial |-> 60, waxing |-> 30, makeup |-> 45,
     spa |-> 120, default |-> 60]

\* SERVICE_DURATIONS.get(service_type.lower(), SERVICE_DURATIONS["default"])
ServiceDuration(st) ==
    IF st \in DOMAIN SERVICE_DURATIONS THEN SERVICE_DURATIONS[st]
    ELSE SERVICE_DURATIONS["default"]

buffer_time == 30

TotalTimeNeeded(st) == ServiceDuration(st) + (buffer_time * 2)

business_start == 9

business_end == 19

preferred_hours == <<10, 11, 12, 13, 14>>

\* target_date = None
NoTarget == 0

\* a target_date string datetime.fromisoformat rejects
InvalidTarget == 0 - 1

(***************************************************************************)
(* Event Normalizer (the loop body of lines 227-282)                       *)
(***************************************************************************)
\* event.get('summary', 'Busy')
EventName(event) == IF event.summary.kind = "text" THEN event.summary.text ELSE Busy

\* whether datetime.fromisoformat accepts the raw start/end value
Parses(raw) == raw.kind \in {"dateTime", "date"}

\* lines 237-251: a value with 'T' is a date-time with or without an offset,
\* a value without it is the date of an all-day event, localized at midnight
ParseTime(raw) ==
    IF raw.kind = "dateTime"
    THEN [t |-> raw.wall - raw.off, off |-> raw.off]
    ELSE Localize(raw.day * (24 * 60))

\* SkipsEvent with the past-event test written end_dt <= now
SkipsEvent_inclusive(event, nw) ==
    \/ event.start.kind = "missing"
    \/ ~Parses(event.start)
    \/ ~Parses(event.end)
    \/ ParseTime(event.end).t <= nw.t

\* lines 232-233, 252-254 and 257-259: the three ways an event is skipped
SkipsEvent(event, nw) ==
    \/ event.start.kind = "missing"
    \/ ~Parses(event.start)
    \/ ~Parses(event.end)
    \/ ParseTime(event.end).t < nw.t

\* lines 263-268
ProcessedEvent(event) ==
    [name     |-> EventName(event),
     start    |-> ParseTime(event.start),
     end      |-> ParseTime(event.end),
     location |-> event.location]

\* is_important with "team" among the keywords
is_important_team(event_name) ==
    AnyIn(Append(IMPORTANT_EVENT_KEYWORDS, <<"t", "e", "a", "m">>), Lower(event_name))

\* line 272
is_important(event_name) == AnyIn(IMPORTANT_EVENT_KEYWORDS, Lower(event_name))

\* lines 275-281
ImportantEvent(event) ==
    [name          |-> EventName(event),
     date          |-> strftime_ABd(ParseTime(event.start)),
     time          |-> strftime_IMp(ParseTime(event.start)),
     start_dt      |-> ParseTime(event.start),
     why_important |-> _get_importance_reason(Lower(EventName(event)))]

(***************************************************************************)
(* list.sort(key=...): stable, ascending by the instant of the key         *)
(***************************************************************************)
\* keys is the sequence of key instants, sorted the indices placed so far
RECURSIVE InsertSorted(_, _, _)
InsertSorted(sorted, x, keys) ==
    IF sorted = <<>> THEN <<x>>
    ELSE IF keys[sorted[Len(sorted)]] <= keys[x] THEN Append(sorted, x)
    ELSE Append(InsertSorted(SubSeq(sorted, 1, Len(sorted) - 1), x, keys),
                sorted[Len(sorted)])

RECURSIVE SortedIndices(_, _)
SortedIndices(n, keys) ==
    IF n = 0 THEN <<>>
    ELSE InsertSorted(SortedIndices(n - 1, keys), n, keys)

\* seq.sort(key=...), keys[k] being the key instant of seq[k]
SortedBy(seq, keys) ==
    [k \in 1..Len(seq) |-> seq[SortedIndices(Len(seq), keys)[k]]]

\* the key lambda x: x["start"]
StartKeys(seq) == [k \in 1..Len(seq) |-> seq[k].start.t]

(***************************************************************************)
(* Slot Finder                                                             *)
(***************************************************************************)
\* lines 513-514: datetime.fromisoformat(target_date) at midnight, localized
TargetDay(td) == Localize(td * (24 * 60))

\* lines 516-520
DayEvents(evs, td) ==
    LET on_date == SelectSeq(evs, LAMBDA e : DateOf(e.start) = DateOf(TargetDay(td)))
    IN  SortedBy(on_date, StartKeys(on_date))

\* lines 523-525
SlotDayStart(td, snow) ==
    IF DateOf(snow) = DateOf(TargetDay(td)) /\ HourOf(snow) >= business_start
    THEN Plus(snow, 30)
    ELSE Replace(TargetDay(td), business_start, 0)

\* a formatted text is the tuple of its format string and its arguments
Slot(from, to, td, type, fmt, args) ==
    [start_time |-> strftime_IMp(from),
     end_time   |-> strftime_IMp(to),
     date       |-> strftime_ABd(TargetDay(td)),
     type       |-> type,
     note       |-> <<fmt>> \o args]

\* lines 528-538
BeforeFirstSlot(day_events, td, total, buf, snow) ==
    LET first_event_start == Plus(day_events[1].start, -buf)
        gap == first_event_start.t - SlotDayStart(td, snow).t
    IN  IF gap >= total
        THEN << Slot(SlotDayStart(td, snow), first_event_start, td,
                     "before_first_event", "Before your %s", <<day_events[1].name>>) >>
        ELSE <<>>

\* BetweenSlots asking for a gap longer than the time needed
BetweenSlots_strict(day_events, td, total, buf) ==
    LET current_end(k) == Plus(day_events[k].end, buf)
        next_start(k)  == Plus(day_events[k + 1].start, -buf)
        fits == SelectSeq([k \in 1..(Len(day_events) - 1) |-> k],
                          LAMBDA k : next_start(k).t - current_end(k).t > total)
    IN  [q \in 1..Len(fits) |->
            Slot(current_end(fits[q]), next_start(fits[q]), td,
                 "between_events", "Between %s and %s",
                 <<day_events[fits[q]].name, day_events[fits[q] + 1].name>>)]

\* lines 541-554
BetweenSlots(day_events, td, total, buf) ==
    LET current_end(k) == Plus(day_events[k].end, buf)
        next_start(k)  == Plus(day_events[k + 1].start, -buf)
        fits == SelectSeq([k \in 1..(Len(day_events) - 1) |-> k],
                          LAMBDA k : next_start(k).t - current_end(k).t >= total)
    IN  [q \in 1..Len(fits) |->
            Slot(current_end(fits[q]), next_start(fits[q]), td,
                 "between_events", "Between %s and %s",
                 <<day_events[fits[q]].name, day_events[fits[q] + 1].name>>)]

\* lines 557-569
AfterLastSlot(day_events, td, total, buf) ==
    LET last_event_end == Plus(day_events[Len(day_events)].end, buf)
        day_end == Replace(TargetDay(td), business_end, 0)
        gap == day_end.t - last_event_end.t
    IN  IF gap >= total
        THEN << Slot(last_event_end, day_end, td,
                     "after_last_event", "After your %s",
                     <<day_events[Len(day_events)].name>>) >>
        ELSE <<>>

\* lines 571-578
FreeDaySlot(td, snow) ==
    << Slot(SlotDayStart(td, snow), Replace(TargetDay(td), business_end, 0), td,
            "free_day", "Your calendar is free this day!", <<>>) >>

_find_available_slots(evs, td, total, buf, snow) ==
    IF td = NoTarget THEN <<>>
    ELSE IF DayEvents(evs, td) # <<>>
    THEN BeforeFirstSlot(DayEvents(evs, td), td, total, buf, snow)
         \o BetweenSlots(DayEvents(evs, td), td, total, buf)
         \o AfterLastSlot(DayEvents(evs, td), td, total, buf)
    ELSE FreeDaySlot(td, snow)

(***************************************************************************)
(* Best-Slot Selector                                                      *)
(***************************************************************************)
\* the literal "11:00 AM"
ElevenAM == [h |-> 11, m |-> 0, p |-> "AM", zero |-> FALSE]

\* the literal "No available time"
NoAvailableTime == [h |-> 0, m |-> 0, p |-> "No available time", zero |-> FALSE]

\* lines 389-396
BestDayStart(target_day, nw) ==
    LET day_start == Localize(DateOf(target_day) * (24 * 60) + 9 * 60)
    IN  IF DateOf(target_day) = DateOf(nw) /\ Plus(nw, 60).t > day_start.t
        THEN Plus(nw, 60)
        ELSE day_start

BestDayEnd(target_day) == Localize(DateOf(target_day) * (24 * 60) + 19 * 60)

\* lines 403-410
BusyPeriods(events_on_day, buf) ==
    LET periods == [k \in 1..Len(events_on_day) |->
                      <<Plus(events_on_day[k].start, -buf), Plus(events_on_day[k].end, buf)>>]
    IN  SortedBy(periods, [k \in 1..Len(periods) |-> periods[k][1].t])

\* lines 413-446
AvailableGaps(busy_periods, day_start, day_end, total) ==
    LET n == Len(busy_periods)
        before == IF /\ busy_periods[1][1].t > day_start.t
                     /\ busy_periods[1][1].t - day_start.t >= total
                  THEN << [start |-> day_start, end |-> busy_periods[1][1]] >>
                  ELSE <<>>
        fits == SelectSeq([k \in 1..(n - 1) |-> k],
                          LAMBDA k : busy_periods[k + 1][1].t - busy_periods[k][2].t >= total)
        between == [q \in 1..Len(fits) |->
                      [start |-> busy_periods[fits[q]][2], end |-> busy_periods[fits[q] + 1][1]]]
        after == IF /\ busy_periods[n][2].t < day_end.t
                    /\ day_end.t - busy_periods[n][2].t >= total
                 THEN << [start |-> busy_periods[n][2], end |-> day_end] >>
                 ELSE <<>>
    IN  before \o between \o after

\* lines 458-463: the preferred hours a gap offers
PreferredIn(slot) ==
    SelectSeq(preferred_hours,
              LAMBDA ph : /\ HourOf(slot.start) <= ph
                          /\ ph < HourOf(slot.end)
                          /\ Replace(slot.start, ph, 0).t >= slot.start.t
                          /\ Replace(slot.start, ph, 0).t < slot.end.t)

\* lines 467-473
RoundedStart(first_slot) ==
    IF MinuteOf(first_slot.start) > 30
    THEN Plus(Replace(first_slot.start, HourOf(first_slot.start), 0), 60)
    ELSE Replace(first_slot.start, HourOf(first_slot.start),
                 IF MinuteOf(first_slot.start) < 30 THEN 0 ELSE 30)

\* lines 448-475
PickTime(available_slots) ==
    LET withPreferred == SelectSeq(available_slots, LAMBDA s : PreferredIn(s) # <<>>)
    IN  IF available_slots = <<>> THEN NoAvailableTime
        ELSE IF withPreferred # <<>>
        THEN lstrip0(strftime_IMp(Replace(withPreferred[1].start,
                                          PreferredIn(withPreferred[1])[1], 0)))
        ELSE lstrip0(strftime_IMp(RoundedStart(available_slots[1])))

_find_best_slot_for_day(target_day, events_on_day, total, buf, nw) ==
    IF events_on_day = <<>> THEN ElevenAM
    ELSE PickTime(AvailableGaps(BusyPeriods(events_on_day, buf),
                                BestDayStart(target_day, nw),
                                BestDayEnd(target_day), total))

(***************************************************************************)
(* Suggestion Composer                                                     *)
(***************************************************************************)
\* str.lower() of the format string of a slot note
LowerFmt(fmt) ==
    CASE fmt = "Before your %s" -> "before your %s"
      [] fmt = "After your %s" -> "after your %s"
      [] fmt = "Between %s and %s" -> "between %s and %s"
      [] OTHER -> "your calendar is free this day!"

\* slot['note'].lower()
LowerNote(note) ==
    <<LowerFmt(note[1])>> \o [k \in 1..(Len(note) - 1) |-> Lower(note[k + 1])]

\* lines 661-678
EventsPart(analysis, td) ==
    LET evs == analysis.events_on_date
    IN  IF td = NoTarget \/ evs = <<>> THEN <<>>
        ELSE IF Len(evs) = 1
        THEN << <<"I see you have %s at %s.", evs[1].name, evs[1].start_time>> >>
        ELSE IF Len(evs) = 2
        THEN << <<"I see from your calendar you have %s at %s, and %s at %s.",
                  evs[1].name, evs[1].start_time, evs[2].name, evs[2].start_time>> >>
        ELSE << <<"I see you have %s events that day, starting with %s at %s.",
                  Len(evs), evs[1].name, evs[1].start_time>> >>

\* lines 681-698
SlotsPart(analysis, st) ==
    LET slots == analysis.suggested_slots
    IN  IF slots = <<>> THEN <<>>
        ELSE IF slots[1].type = "between_events"
        THEN << <<"How about between your appointments? %s to %s would give you enough time for your %s with buffer time to spare!",
                  slots[1].start_time, slots[1].end_time, st>> >>
        ELSE IF slots[1].type = "free_day"
        THEN << <<"Your calendar is free that day! I'd suggest late morning or early afternoon when you have plenty of time to enjoy your %s.",
                  st>> >>
        ELSE << <<"I'd suggest around %s - %s.",
                  slots[1].start_time, LowerNote(slots[1].note)>> >>

\* lines 701-711
DayBeforePart(analysis, st) ==
    LET dbs == analysis.day_before_suggestions
    IN  IF dbs = <<>> THEN <<>>
        ELSE << <<"I noticed you have %s on %s! How about getting your %s done the day before on %s around %s? That way you'll look fresh and have plenty of time to get ready for your big event!",
                  dbs[1].event_name, dbs[1].event_date, st,
                  dbs[1].suggested_day, dbs[1].suggested_time>> >>

\* the text is the tuple of its parts; the empty tuple is the empty string
_build_smart_suggestion(analysis, st, td) ==
    IF ~analysis.has_calendar THEN <<>>
    ELSE EventsPart(analysis, td) \o SlotsPart(analysis, st) \o DayBeforePart(analysis, st)

(***************************************************************************)
(* Importance scoring by a language model                                  *)
(* (detect_important_events_with_llm).  The text of a response is a tuple  *)
(* of tokens: "fence-json" and "fence" for the markdown fences with and    *)
(* without the word json, the JSON punctuation "[", "]" and ",", the JSON  *)
(* values "obj" (an object literal), "null" and "7", and "prose" for words *)
(* that are no JSON.                                                       *)
(***************************************************************************)
\* events[:10]
PromptLimit == 10

\* a Python value json.loads can return; items is empty unless it is a list
PyValue(kind, items) == [kind |-> kind, items |-> items]

\* the literal []
EmptyList == PyValue("list", <<>>)

\* the outcome of a parsing step: the value read and the position after it
Parsed(value, next) == [ok |-> TRUE, value |-> value, next |-> next]

\* json.JSONDecodeError
NotParsed == [ok |-> FALSE, value |-> PyValue("none", <<>>), next |-> 0]

\* the value of a token that is a JSON value by itself
AtomValue(tok) ==
    CASE tok = "obj"  -> PyValue("dict", <<>>)
      [] tok = "null" -> PyValue("none", <<>>)
      [] tok = "7"    -> PyValue("int", <<>>)

\* json.loads reading one value at position p, and the rest of an array
RECURSIVE ParseValue(_, _)
RECURSIVE ParseElements(_, _, _)
ParseValue(toks, p) ==
    IF p > Len(toks) THEN NotParsed
    ELSE IF toks[p] \in {"obj", "null", "7"} THEN Parsed(AtomValue(toks[p]), p + 1)
    ELSE IF toks[p] = "["
    THEN IF p + 1 <= Len(toks) /\ toks[p + 1] = "]"
         THEN Parsed(EmptyList, p + 2)
         ELSE ParseElements(toks, p + 1, <<>>)
    ELSE NotParsed

ParseElements(toks, p, items) ==
    LET v == ParseValue(toks, p)
    IN  IF ~v.ok \/ v.next > Len(toks) THEN NotParsed
        ELSE IF toks[v.next] = ","
        THEN ParseElements(toks, v.next + 1, Append(items, v.value))
        ELSE IF toks[v.next] = "]"
        THEN Parsed(PyValue("list", Append(items, v.value)), v.next + 1)
        ELSE NotParsed

\* json.loads(result_text): the whole text must be one value
json_loads(toks) ==
    LET v == ParseValue(toks, 1)
    IN  IF v.ok /\ v.next = Len(toks) + 1 THEN v ELSE NotParsed

\* the position of the first token of the set, Len + 1 if there is none
FirstOf(toks, fences) ==
    IF \E k \in 1..Len(toks) : toks[k] \in fences
    THEN CHOOSE k \in 1..Len(toks) :
             /\ toks[k] \in fences
             /\ \A q \in 1..(k - 1) : toks[q] \notin fences
    ELSE Len(toks) + 1

\* text.split(opening)[1].split(fence)[0]: the bare fence is a prefix of the
\* json fence, so the second split cuts at either
Fenced(toks, opening) ==
    LET rest == SubSeq(toks, FirstOf(toks, {opening}) + 1, Len(toks))
    IN  SubSeq(rest, 1, FirstOf(rest, {"fence-json", "fence"}) - 1)

\* lines 632-635
StripFences(toks) ==
    IF \E k \in 1..Len(toks) : toks[k] = "fence-json" THEN Fenced(toks, "fence-json")
    ELSE IF \E k \in 1..Len(toks) : toks[k] = "fence" THEN Fenced(toks, "fence")
    ELSE toks

\* the function has not been called
NotInvoked ==
    [pc       |-> "idle",
     events   |-> <<>>,
     llm      |-> FALSE,
     prompt   |-> <<>>,
     calls    |-> 0,
     response |-> [kind |-> "none", content |-> <<>>],
     value    |-> PyValue("none", <<>>)]

(***************************************************************************)
(* Inputs                                                                  *)
(***************************************************************************)
\* longest raw event feed
MaxFeed == 2

\* latest reading of the clock in _find_available_slots, in minutes after
\* the reading of the caller
MaxDrift == 1

At(d, h, m) == d * (24 * 60) + h * 60 + m

\* {'dateTime': ...} in the reference timezone
DateTime(d, h, m) == [kind |-> "dateTime", wall |-> At(d, h, m), off |-> 0]

\* {'dateTime': '...Z'}: UTC is five hours ahead of the reference timezone
DateTimeUTC(d, h, m) == [kind |-> "dateTime", wall |-> At(d, h, m), off |-> 5 * 60]

\* {'date': ...} of an all-day event
AllDay(d) == [kind |-> "date", day |-> d]

Unparsable == [kind |-> "bad"]

Missing == [kind |-> "missing"]

RawEvent(name, start, end) ==
    [summary |-> [kind |-> "text", text |-> name], start |-> start, end |-> end,
     location |-> <<>>]

Unnamed(start, end) ==
    [summary |-> [kind |-> "missing"], start |-> start, end |-> end, location |-> <<>>]

\* day 1 is today
EventPool ==
    { RawEvent(WeddingReception, DateTime(1, 8, 0), DateTime(1, 9, 0)),
      RawEvent(TeamStandup, DateTime(1, 9, 0), DateTime(1, 10, 0)),
      RawEvent(WeddingReception, DateTime(1, 9, 30), DateTime(1, 11, 0)),
      RawEvent(WeddingReception, DateTime(2, 10, 0), DateTime(2, 16, 0)),
      RawEvent(TeamStandup, DateTime(2, 10, 0), DateTime(2, 16, 0)),
      RawEvent(TeamStandup, DateTime(2, 11, 0), DateTime(2, 12, 0)),
      Unnamed(DateTime(2, 20, 0), DateTime(2, 21, 0)),
      RawEvent(WeddingReception, DateTime(3, 14, 0), DateTime(3, 15, 0)),
      RawEvent(WeddingReception, DateTimeUTC(3, 2, 0), DateTimeUTC(3, 3, 0)),
      RawEvent(TeamStandup, AllDay(2), AllDay(3)),
      RawEvent(WeddingReception, Unparsable, DateTime(3, 15, 0)),
      RawEvent(WeddingReception, DateTime(3, 14, 0), Missing) }

Feeds == UNION { [1..n -> EventPool] : n \in 0..MaxFeed }

\* a day before an important event that is taken from 08:00 until some
\* minute of the afternoon, so that its only gap starts at 15:00, 15:10,
\* 15:30, 15:31 or 15:59
LateGapFeeds ==
    { << RawEvent(TeamStandup, DateTime(2, 8, 0), DateTime(2, 14, 30 + m)),
         RawEvent(WeddingReception, DateTime(3, 14, 0), DateTime(3, 15, 0)) >> :
      m \in {0, 10, 30, 31, 59} }

\* a day before an important event whose only gap is 09:00-10:30; one whose
\* only gap is 10:30-12:00; an important event tomorrow evening; an event
\* whose end precedes its start; two overlapping events at noon; a day of
\* three events with a gap after the first; an event given at UTC followed
\* by a local one of the same day
GapFeeds ==
    { << RawEvent(TeamStandup, DateTime(2, 11, 0), DateTime(2, 18, 30)),
         RawEvent(WeddingReception, DateTime(3, 14, 0), DateTime(3, 15, 0)) >>,
      << RawEvent(TeamStandup, DateTime(2, 8, 0), DateTime(2, 10, 0)),
         RawEvent(TeamStandup, DateTime(2, 12, 30), DateTime(2, 18, 30)),
         RawEvent(WeddingReception, DateTime(3, 14, 0), DateTime(3, 15, 0)) >>,
      << RawEvent(WeddingReception, DateTime(2, 19, 0), DateTime(2, 20, 0)) >>,
      << RawEvent(TeamStandup, DateTime(2, 12, 0), DateTime(2, 11, 0)) >>,
      << RawEvent(TeamStandup, DateTime(2, 12, 0), DateTime(2, 13, 0)),
         RawEvent(TeamStandup, DateTime(2, 12, 30), DateTime(2, 13, 30)) >>,
      << RawEvent(TeamStandup, DateTime(2, 9, 0), DateTime(2, 10, 0)),
         RawEvent(TeamDinner, DateTime(2, 13, 0), DateTime(2, 14, 0)),
         Unnamed(DateTime(2, 20, 0), DateTime(2, 21, 0)) >>,
      << RawEvent(WeddingReception, DateTimeUTC(2, 13, 0), DateTimeUTC(2, 14, 0)),
         RawEvent(TeamStandup, DateTime(2, 12, 0), DateTime(2, 13, 0)) >> }

\* feeds of a busier week: a day with a morning and an afternoon event; four
\* important events more than a day away; a day with two early events
\* before an important one; a day with an all-day event and a meeting before
\* an important one
BusyFeeds ==
    LateGapFeeds \cup GapFeeds \cup
    { << RawEvent(TeamStandup, DateTime(2, 10, 0), DateTime(2, 11, 0)),
         RawEvent(TeamDinner, DateTime(2, 14, 0), DateTime(2, 15, 0)) >>,
      << RawEvent(WeddingReception, DateTime(2, 10, 0), DateTime(2, 16, 0)),
         RawEvent(WeddingReception, DateTimeUTC(3, 2, 0), DateTimeUTC(3, 3, 0)),
         RawEvent(WeddingReception, DateTime(3, 14, 0), DateTime(3, 15, 0)),
         RawEvent(WeddingReception, DateTime(3, 18, 0), DateTime(3, 19, 0)) >>,
      << RawEvent(TeamStandup, DateTime(2, 2, 0), DateTime(2, 3, 0)),
         RawEvent(TeamStandup, DateTime(2, 7, 0), DateTime(2, 18, 0)),
         RawEvent(WeddingReception, DateTime(3, 14, 0), DateTime(3, 15, 0)) >>,
      << RawEvent(TeamStandup, AllDay(2), AllDay(3)),
         RawEvent(TeamStandup, DateTime(2, 11, 0), DateTime(2, 12, 0)),
         RawEvent(WeddingReception, DateTime(3, 14, 0), DateTime(3, 15, 0)) >> }

Nows == { Localize(At(1, 8, 45)), Localize(At(1, 10, 0)), Localize(At(1, 18, 0)) }

Targets == {NoTarget, InvalidTarget, 1, 2}

ServiceTypes == {"haircut", "manicure"}

UserAnswers == {"unknown", "no_token", "ok", "db_error"}

ProviderAnswers == {"granted", "denied"}

\* longest event list handed to detect_important_events_with_llm
MaxEvents == 12

\* the k-th event of such a list
ScoredEvent(k) == [name |-> k]

\* what awaiting llm.ainvoke(prompt) can produce: an exception (a failure or
\* a timeout of the capability) or a response with a content
Raises == [kind |-> "raises", content |-> <<>>]

Content(toks) == [kind |-> "content", content |-> toks]

Responses ==
    { Raises,
      Content(<<>>),
      Content(<<"[", "]">>),
      Content(<<"[", "obj", "]">>),
      Content(<<"[", "obj", ",", "obj", "]">>),
      Content(<<"fence-json", "[", "obj", "]", "fence">>),
      Content(<<"fence", "[", "obj", "]", "fence">>),
      Content(<<"prose", "fence-json", "[", "]", "fence", "prose">>),
      Content(<<"prose">>),
      Content(<<"[", "obj">>),
      Content(<<"[", "obj", "]", "prose">>),
      Content(<<"obj">>),
      Content(<<"null">>),
      Content(<<"fence-json", "obj", "fence">>) }

(***************************************************************************)
(* analyze_calendar_for_smart_suggestions                                  *)
(***************************************************************************)
\* lines 167-175
EmptyResult ==
    [has_calendar           |-> FALSE,
     suggested_slots        |-> <<>>,
     important_events       |-> <<>>,
     day_before_suggestions |-> <<>>,
     events_on_date         |-> <<>>,
     reasoning              |-> "",
     smart_suggestion       |-> <<>>]

Init ==
    /\ target_date \in Targets
    /\ service_type \in ServiceTypes
    /\ now \in Nows
    /\ run = 1
    /\ prev = EmptyResult
    /\ pc = "start"
    /\ user = "unasked"
    /\ access = "unasked"
    /\ provider_calls = 0
    /\ events = <<>>
    /\ slot_now = now
    /\ i = 1
    /\ processed_events = <<>>
    /\ important_events = <<>>
    /\ j = 1
    /\ result = EmptyResult
    /\ detect = NotInvoked

\* LookupUser with has_calendar set before the token is tested
LookupUser_early_flag ==
    /\ pc = "start"
    /\ \E u \in UserAnswers :
        /\ run = 1 \/ u = user
        /\ user' = u
        /\ IF u = "ok"
           THEN /\ result' = [EmptyResult EXCEPT !.has_calendar = TRUE]
                /\ pc' = "fetch"
           ELSE IF u = "db_error"
           THEN /\ result' = [EmptyResult EXCEPT
                                !.reasoning = "Error analyzing calendar: query failed"]
                /\ pc' = "done"
           ELSE /\ result' = [EmptyResult EXCEPT
                                !.has_calendar = TRUE,
                                !.reasoning = "User has not connected their Google Calendar"]
                /\ pc' = "done"
    /\ UNCHANGED <<detect, target_date, service_type, run, prev, provider_calls, events, access,
                   now, slot_now, i, processed_events, important_events, j>>

\* lines 166-184 and 356-359: the user and the token are looked up
LookupUser ==
    /\ pc = "start"
    /\ \E u \in UserAnswers :
        /\ run = 1 \/ u = user
        /\ user' = u
        /\ IF u = "ok"
           THEN /\ result' = [EmptyResult EXCEPT !.has_calendar = TRUE]
                /\ pc' = "fetch"
           ELSE IF u = "db_error"
           THEN /\ result' = [EmptyResult EXCEPT
                                !.reasoning = "Error analyzing calendar: query failed"]
                /\ pc' = "done"
           ELSE /\ result' = [EmptyResult EXCEPT
                                !.reasoning = "User has not connected their Google Calendar"]
                /\ pc' = "done"
    /\ UNCHANGED <<detect, target_date, service_type, run, prev, provider_calls, events, access,
                   now, slot_now, i, processed_events, important_events, j>>

\* FetchEvents with the date range computed outside the try: an invalid
\* target_date leaves the function as an exception
FetchEvents_unguarded ==
    /\ pc = "fetch"
    /\ IF target_date = InvalidTarget
       THEN /\ pc' = "raised"
            /\ UNCHANGED <<result, provider_calls, access, events>>
       ELSE /\ provider_calls' = provider_calls + 1
            /\ \E a \in ProviderAnswers :
                /\ run = 1 \/ a = access
                /\ access' = a
                /\ IF a = "granted"
                   THEN /\ \E f \in Feeds \cup BusyFeeds :
                              (run = 1 \/ f = events) /\ events' = f
                        /\ pc' = "normalize"
                        /\ UNCHANGED result
                   ELSE /\ result' = [result EXCEPT
                                        !.reasoning = "Error analyzing calendar: access denied"]
                        /\ pc' = "done"
                        /\ UNCHANGED events
    /\ i' = 1
    /\ processed_events' = <<>>
    /\ important_events' = <<>>
    /\ UNCHANGED <<detect, target_date, service_type, run, prev, user, now, slot_now, j>>

\* lines 186-222 and 356-359: the date range is computed and its events are
\* fetched; a target_date that is no ISO date raises at line 201, before the
\* provider is called
FetchEvents ==
    /\ pc = "fetch"
    /\ IF target_date = InvalidTarget
       THEN /\ result' = [result EXCEPT
                            !.reasoning = "Error analyzing calendar: Invalid isoformat string"]
            /\ pc' = "done"
            /\ UNCHANGED <<provider_calls, access, events>>
       ELSE /\ provider_calls' = provider_calls + 1
            /\ \E a \in ProviderAnswers :
                /\ run = 1 \/ a = access
                /\ access' = a
                /\ IF a = "granted"
                   THEN /\ \E f \in Feeds \cup BusyFeeds :
                              (run = 1 \/ f = events) /\ events' = f
                        /\ pc' = "normalize"
                        /\ UNCHANGED result
                   ELSE /\ result' = [result EXCEPT
                                        !.reasoning = "Error analyzing calendar: access denied"]
                        /\ pc' = "done"
                        /\ UNCHANGED events
    /\ i' = 1
    /\ processed_events' = <<>>
    /\ important_events' = <<>>
    /\ UNCHANGED <<detect, target_date, service_type, run, prev, user, now, slot_now, j>>

\* lines 227-282: the body of the loop over the raw events, on the lists
\* built so far
NormalizeStep(acc, event, nw) ==
    IF SkipsEvent(event, nw) THEN acc
    ELSE [processed |-> Append(acc.processed, ProcessedEvent(event)),
          important |-> IF is_important(EventName(event))
                        THEN Append(acc.important, ImportantEvent(event))
                        ELSE acc.important]

\* NormalizeEvent with the parse error caught by the handler of the whole
\* function (lines 356-359) instead of the one inside the loop
NormalizeEvent_abort ==
    /\ pc = "normalize"
    /\ i <= Len(events)
    /\ i' = i + 1
    /\ IF Parses(events[i].start) /\ ~Parses(events[i].end)
       THEN /\ result' = [result EXCEPT !.reasoning = "Error analyzing calendar: parse error"]
            /\ pc' = "done"
            /\ UNCHANGED <<processed_events, important_events>>
       ELSE /\ LET acc == NormalizeStep([processed |-> processed_events,
                                         important |-> important_events], events[i], now)
               IN  /\ processed_events' = acc.processed
                   /\ important_events' = acc.important
            /\ UNCHANGED <<pc, result>>
    /\ UNCHANGED <<detect, target_date, service_type, run, prev, user, provider_calls, events,
                   access, now, slot_now, j>>

\* lines 227-282: one iteration of the loop over the raw events
NormalizeEvent ==
    /\ pc = "normalize"
    /\ i <= Len(events)
    /\ i' = i + 1
    /\ LET acc == NormalizeStep([processed |-> processed_events,
                                 important |-> important_events], events[i], now)
       IN  /\ processed_events' = acc.processed
           /\ important_events' = acc.important
    /\ UNCHANGED <<detect, target_date, service_type, run, prev, pc, user, provider_calls, events,
                   access, now, slot_now, j, result>>

\* EventsOnDate listing the events whether or not a target date was given
EventsOnDate_always(processed, td) ==
    [k \in 1..Len(processed) |->
        [name       |-> processed[k].name,
         start_time |-> strftime_IMp(processed[k].start),
         end_time   |-> strftime_IMp(processed[k].end),
         location   |-> processed[k].location]]

\* lines 287-296
EventsOnDate(processed, td) ==
    IF td = NoTarget THEN <<>>
    ELSE [k \in 1..Len(processed) |->
            [name       |-> processed[k].name,
             start_time |-> strftime_IMp(processed[k].start),
             end_time   |-> strftime_IMp(processed[k].end),
             location   |-> processed[k].location]]

\* lines 284-307: the loop is over; the slots of the target date are computed,
\* under a second reading of the clock (line 505)
FindSlots ==
    /\ pc = "normalize"
    /\ i > Len(events)
    /\ \E d \in 0..MaxDrift : slot_now' = Plus(now, d)
    /\ result' = [result EXCEPT
                    !.important_events = important_events,
                    !.events_on_date = EventsOnDate(processed_events, target_date),
                    !.suggested_slots =
                        _find_available_slots(processed_events, target_date,
                                              TotalTimeNeeded(service_type),
                                              buffer_time, slot_now')]
    /\ pc' = "day_before"
    /\ j' = 1
    /\ UNCHANGED <<detect, target_date, service_type, run, prev, user, provider_calls, events,
                   access, now, i, processed_events, important_events>>

\* lines 321-343
DayBeforeSuggestion(important_event, processed, st, nw) ==
    LET day_before == Plus(important_event.start_dt, -(24 * 60))
        on_day == SelectSeq(processed, LAMBDA e : DateOf(e.start) = DateOf(day_before))
        day_before_events == SortedBy(on_day, StartKeys(on_day))
    IN  [event_name     |-> important_event.name,
         event_date     |-> important_event.date,
         suggested_day  |-> strftime_ABd(day_before),
         suggested_time |-> _find_best_slot_for_day(day_before, day_before_events,
                                                    TotalTimeNeeded(st), buffer_time, nw),
         reason         |-> <<"Get your %s done before %s so you look your best!",
                              st, important_event.name>>]

\* TooClose with the test written <= timedelta(hours=24)
TooClose_inclusive(important_event, nw) == important_event.start_dt.t - nw.t <= 24 * 60

\* line 317
TooClose(important_event, nw) == important_event.start_dt.t - nw.t < 24 * 60

\* lines 310-343: the body of the loop over the important events, on the
\* suggestions appended so far
DayBeforeStep(suggestions, important_event, processed, st, nw) ==
    IF TooClose(important_event, nw) THEN suggestions
    ELSE Append(suggestions, DayBeforeSuggestion(important_event, processed, st, nw))

\* lines 310-344: one iteration of the loop over the important events
SuggestDayBefore ==
    /\ pc = "day_before"
    /\ j <= Len(important_events)
    /\ j' = j + 1
    /\ result' = [result EXCEPT !.day_before_suggestions =
                    DayBeforeStep(@, important_events[j], processed_events,
                                  service_type, now)]
    /\ UNCHANGED <<detect, target_date, service_type, run, prev, pc, user, provider_calls, events,
                   access, now, slot_now, i, processed_events, important_events>>

\* lines 346-354: the suggestion text is composed and the result returned
Compose ==
    /\ pc = "day_before"
    /\ j > Len(important_events)
    /\ result' = [result EXCEPT !.smart_suggestion =
                    _build_smart_suggestion(result, service_type, target_date)]
    /\ pc' = "done"
    /\ UNCHANGED <<detect, target_date, service_type, run, prev, user, provider_calls, events,
                   access, now, slot_now, i, processed_events, important_events, j>>

\* the caller invokes the analysis again on the same user, feed and clock
Rerun ==
    /\ pc = "done"
    /\ run = 1
    /\ run' = 2
    /\ prev' = result
    /\ pc' = "start"
    /\ result' = EmptyResult
    /\ i' = 1
    /\ j' = 1
    /\ processed_events' = <<>>
    /\ important_events' = <<>>
    /\ slot_now' = now
    /\ UNCHANGED <<detect, target_date, service_type, user, provider_calls, events, access, now>>

Next ==
    \/ LookupUser
    \/ FetchEvents
    \/ NormalizeEvent
    \/ FindSlots
    \/ SuggestDayBefore
    \/ Compose

Spec == Init /\ [][Next]_vars

NextTwice == Next \/ Rerun

SpecTwice == Init /\ [][NextTwice]_vars

\* detect_important_events_with_llm is called on a list of events
InitDetect ==
    /\ target_date = NoTarget
    /\ service_type = "haircut"
    /\ now = Localize(At(1, 10, 0))
    /\ run = 1
    /\ prev = EmptyResult
    /\ pc = "start"
    /\ user = "unasked"
    /\ access = "unasked"
    /\ provider_calls = 0
    /\ events = <<>>
    /\ slot_now = now
    /\ i = 1
    /\ processed_events = <<>>
    /\ important_events = <<>>
    /\ j = 1
    /\ result = EmptyResult
    /\ \E n \in 0..MaxEvents : \E l \in BOOLEAN :
           detect = [NotInvoked EXCEPT !.pc = "called",
                                       !.events = [k \in 1..n |-> ScoredEvent(k)],
                                       !.llm = l]

\* lines 596-627: the early return, or the prompt is built from the first ten
\* events and llm.ainvoke is awaited
DetectCall ==
    /\ detect.pc = "called"
    /\ IF detect.events = <<>> \/ ~detect.llm
       THEN detect' = [detect EXCEPT !.pc = "returned", !.value = EmptyList]
       ELSE detect' = [detect EXCEPT
                          !.pc = "awaiting",
                          !.prompt = SubSeq(detect.events, 1,
                                            IF Len(detect.events) < PromptLimit
                                            THEN Len(detect.events) ELSE PromptLimit),
                          !.calls = @ + 1]
    /\ UNCHANGED <<target_date, service_type, run, prev, pc, user, provider_calls, events,
                   access, now, slot_now, i, processed_events, important_events, j, result>>

\* lines 628-644: the awaited call ends; the fences are stripped, the text is
\* parsed and whatever json.loads returned is returned; any exception gives []
DetectResume ==
    /\ detect.pc = "awaiting"
    /\ \E r \in Responses :
           detect' = [detect EXCEPT
                         !.pc = "returned",
                         !.response = r,
                         !.value = IF r.kind = "raises" THEN EmptyList
                                   ELSE IF json_loads(StripFences(r.content)).ok
                                   THEN json_loads(StripFences(r.content)).value
                                   ELSE EmptyList]
    /\ UNCHANGED <<target_date, service_type, run, prev, pc, user, provider_calls, events,
                   access, now, slot_now, i, processed_events, important_events, j, result>>

NextDetect ==
    \/ DetectCall
    \/ DetectResume

SpecDetect == InitDetect /\ [][NextDetect]_vars

(***************************************************************************)
(* The analysis as a function of the feed and of the two clock readings    *)
(***************************************************************************)
RECURSIVE NormalizeAll(_, _)
NormalizeAll(feed, nw) ==
    IF feed = <<>> THEN [processed |-> <<>>, important |-> <<>>]
    ELSE NormalizeStep(NormalizeAll(SubSeq(feed, 1, Len(feed) - 1), nw),
                       feed[Len(feed)], nw)

RECURSIVE DayBeforeAll(_, _, _, _)
DayBeforeAll(important, processed, st, nw) ==
    IF important = <<>> THEN <<>>
    ELSE DayBeforeStep(DayBeforeAll(SubSeq(important, 1, Len(important) - 1),
                                    processed, st, nw),
                       important[Len(important)], processed, st, nw)

\* lines 184-354 for a user with a token and a provider that answers feed
Analysis(feed, td, st, nw, snow) ==
    LET lists == NormalizeAll(feed, nw)
        analysis == [EmptyResult EXCEPT
                       !.has_calendar = TRUE,
                       !.important_events = lists.important,
                       !.events_on_date = EventsOnDate(lists.processed, td),
                       !.suggested_slots =
                           _find_available_slots(lists.processed, td, TotalTimeNeeded(st),
                                                 buffer_time, snow),
                       !.day_before_suggestions =
                           DayBeforeAll(lists.important, lists.processed, st, nw)]
    IN  [analysis EXCEPT !.smart_suggestion = _build_smart_suggestion(analysis, st, td)]

\* the feed without its k-th event
Remove(feed, k) == SubSeq(feed, 1, k - 1) \o SubSeq(feed, k + 1, Len(feed))

(***************************************************************************)
(* Properties                                                              *)
(***************************************************************************)
\* the slots are in the result once the Slot Finder has run
SlotsComputed == pc = "day_before" \/ (pc = "done" /\ user = "ok" /\ access = "granted")

\* the invocation returned a result computed from the feed
Returned == pc = "done" /\ user = "ok" /\ access = "granted"

\* minute of the day a "%I:%M %p" text denotes
MinuteOfDay(txt) ==
    ((txt.h % 12) + (IF txt.p = "PM" THEN 12 ELSE 0)) * 60 + txt.m

\* a slot carries its date and the texts of its two times of day
SlotStart(slot) == slot.date * (24 * 60) + MinuteOfDay(slot.start_time)

SlotEnd(slot) == slot.date * (24 * 60) + MinuteOfDay(slot.end_time)

\* the buffered busy period of an event meets the slot in more than a point
Intersects(slot, e) ==
    /\ SlotStart(slot) < e.end.t + buffer_time
    /\ e.start.t - buffer_time < SlotEnd(slot)

\* C1: no slot emitted by the Slot Finder intersects the buffered busy period
\* [start - 30 min, end + 30 min] of any event of the normalized list,
\* overlapping and nested events included.
C1_NoSlotInBusyPeriod ==
    SlotsComputed =>
        \A q \in 1..Len(result.suggested_slots) : \A k \in 1..Len(processed_events) :
            ~Intersects(result.suggested_slots[q], processed_events[k])

\* C2: every emitted slot, of every kind, lasts at least total_time_needed
\* (service duration + 2 x 30 minutes), whatever 'now' is.
C2_MinimumDuration ==
    SlotsComputed =>
        \A q \in 1..Len(result.suggested_slots) :
            SlotEnd(result.suggested_slots[q]) - SlotStart(result.suggested_slots[q])
                >= TotalTimeNeeded(service_type)

\* C3: every emitted slot starts at or after 09:00 and ends at or before
\* 19:00 of the target date, whatever the times of the events of that date.
C3_WithinBusinessHours ==
    SlotsComputed =>
        \A q \in 1..Len(result.suggested_slots) :
            /\ MinuteOfDay(result.suggested_slots[q].start_time) >= business_start * 60
            /\ MinuteOfDay(result.suggested_slots[q].end_time) <= business_end * 60

\* the raw start and end are both readable
WellFormed(event) ==
    /\ event.start.kind \notin {"bad", "missing"}
    /\ event.end.kind \notin {"bad", "missing"}

\* the raw event is readable and its end is strictly before nw
EndedBefore(event, nw) == WellFormed(event) /\ ParseTime(event.end).t < nw.t

\* the readable raw events that have not ended before nw, in feed order
Retained(feed, nw) == SelectSeq(feed, LAMBDA ev : WellFormed(ev) /\ ~EndedBefore(ev, nw))

\* C4: a raw event whose end is strictly before 'now' is in none of
\* important_events, events_on_date and day_before_suggestions and changes
\* neither the slots nor the suggested times: the result is the one computed on
\* the feed without it; an event whose end is 'now' or later is retained.
C4_PastEventsExcluded ==
    Returned =>
        /\ \A k \in 1..Len(events) :
              EndedBefore(events[k], now) =>
                  result = Analysis(Remove(events, k), target_date, service_type,
                                    now, slot_now)
        /\ processed_events =
              [q \in 1..Len(Retained(events, now)) |-> ProcessedEvent(Retained(events, now)[q])]
        /\ \A q \in 1..Len(result.important_events) :
              \E k \in 1..Len(processed_events) :
                  /\ processed_events[k].start = result.important_events[q].start_dt
                  /\ processed_events[k].name = result.important_events[q].name
        /\ Len(result.events_on_date) =
              IF target_date = NoTarget THEN 0 ELSE Len(Retained(events, now))

\* an event that ended before 'now' and one that ends exactly at 'now' were
\* both in the feed of an analysis with a target date, the first of them
\* carrying an importance keyword
C4_Witness ==
    /\ Returned
    /\ target_date # NoTarget
    /\ \E k \in 1..Len(events) :
          EndedBefore(events[k], now) /\ EventName(events[k]) = WeddingReception
    /\ \E k \in 1..Len(events) :
          WellFormed(events[k]) /\ ParseTime(events[k].end).t = now.t
    /\ Len(processed_events) = 1

\* the important events of the result that start 24 hours or more after 'now'
FarEnough == SelectSeq(result.important_events,
                       LAMBDA ie : ie.start_dt.t >= now.t + 24 * 60)

\* C5: an important event that starts less than 24 hours after 'now', an
\* ongoing one included, produces no day-before suggestion; one that starts
\* exactly 24 hours or more after 'now' produces one.
C5_TwentyFourHourRule ==
    Returned =>
        /\ Len(result.day_before_suggestions) = Len(FarEnough)
        /\ \A q \in 1..Len(FarEnough) :
              /\ result.day_before_suggestions[q].event_name = FarEnough[q].name
              /\ result.day_before_suggestions[q].event_date = FarEnough[q].date
              /\ result.day_before_suggestions[q].suggested_day
                    = DateOf(FarEnough[q].start_dt) - 1

\* an ongoing important event and one that starts exactly 24 hours after
\* 'now' were analysed, and only the second has a suggestion
C5_Witness ==
    /\ Returned
    /\ \E q \in 1..Len(result.important_events) :
          result.important_events[q].start_dt.t < now.t
    /\ \E q \in 1..Len(result.important_events) :
          result.important_events[q].start_dt.t = now.t + 24 * 60
    /\ Len(result.day_before_suggestions) = 1

\* C6: every day-before suggestion names an event of important_events of the
\* same result, there is one suggestion per important event that starts at
\* least 24 hours after 'now', and an event whose name has no importance
\* keyword ("Team Standup") is not in important_events and has no suggestion.
C6_SuggestionsOnlyForImportant ==
    Returned =>
        /\ \A q \in 1..Len(result.day_before_suggestions) :
              \E k \in 1..Len(result.important_events) :
                  /\ result.important_events[k].name
                        = result.day_before_suggestions[q].event_name
                  /\ result.important_events[k].date
                        = result.day_before_suggestions[q].event_date
        /\ Len(result.day_before_suggestions)
              = Cardinality({k \in 1..Len(result.important_events) :
                                result.important_events[k].start_dt.t - now.t >= 24 * 60})
        /\ \A k \in 1..Len(result.important_events) :
              result.important_events[k].name # TeamStandup
        /\ \A q \in 1..Len(result.day_before_suggestions) :
              result.day_before_suggestions[q].event_name # TeamStandup

\* a "Team Standup" and a "Wedding Reception", both more than 24 hours
\* away, were analysed and there is a suggestion
C6_Witness ==
    /\ Returned
    /\ \E k \in 1..Len(processed_events) :
          /\ processed_events[k].name = TeamStandup
          /\ processed_events[k].start.t >= now.t + 24 * 60
    /\ Len(result.important_events) = 1
    /\ Len(result.day_before_suggestions) = 1

\* C7: a second analysis of the same raw events, target date, service type
\* and 'now' returns the result of the first.
C7_Idempotent == (run = 2 /\ pc = "done") => result = prev

\* C8: for an unknown user or a user without a token the result has
\* has_calendar = false, empty lists, an empty smart_suggestion and a
\* non-empty reasoning, and the calendar provider was not called.
C8_NoCredential ==
    (pc = "done" /\ user \in {"unknown", "no_token"}) =>
        /\ result.has_calendar = FALSE
        /\ result.suggested_slots = <<>>
        /\ result.important_events = <<>>
        /\ result.day_before_suggestions = <<>>
        /\ result.events_on_date = <<>>
        /\ result.smart_suggestion = <<>>
        /\ result.reasoning # ""
        /\ provider_calls = 0
        /\ access = "unasked"

\* the analysis returned for a user who has no token
C8_Witness == pc = "done" /\ user = "no_token" /\ result.reasoning # ""

\* C9: when the provider denies access the result has has_calendar = false,
\* empty suggestions and a non-empty reasoning.
C9_DeniedMeansNoCalendar ==
    (pc = "done" /\ access = "denied") =>
        /\ result.has_calendar = FALSE
        /\ result.suggested_slots = <<>>
        /\ result.day_before_suggestions = <<>>
        /\ result.reasoning # ""

\* the raw start or end is missing or unreadable
Malformed(event) == ~WellFormed(event)

\* C10: a raw event whose start or end is missing or unreadable is skipped
\* alone: the result is the one computed on the feed without it, and the
\* analysis returns without an error.
C10_MalformedSkipped ==
    Returned =>
        /\ result.reasoning = ""
        /\ \A k \in 1..Len(events) :
              Malformed(events[k]) =>
                  result = Analysis(Remove(events, k), target_date, service_type,
                                    now, slot_now)

\* an event without a readable end came first in the feed and the event
\* after it was normalized
C10_Witness ==
    /\ Returned
    /\ Len(events) = 2
    /\ events[1].end.kind = "missing"
    /\ WellFormed(events[2])
    /\ Len(processed_events) = 1

\* the slot search of a given target date found nothing, or the Best-Slot
\* Selector answered a day-before request with the sentinel
NoQualifyingSlot ==
    \/ result.suggested_slots = <<>>
    \/ \E k \in 1..Len(result.day_before_suggestions) :
           result.day_before_suggestions[k].suggested_time = NoAvailableTime

\* the only words about missing availability the composed text can hold: its
\* day-before part quoting the sentinel as the suggested time
SaysNoAvailability ==
    /\ result.day_before_suggestions # <<>>
    /\ result.day_before_suggestions[1].suggested_time = NoAvailableTime
    /\ \E k \in 1..Len(result.smart_suggestion) :
           <<result.smart_suggestion[k]>> = DayBeforePart(result, service_type)

\* C11: when the calendar is connected and no qualifying slot was found for
\* the target date, the composed text is non-empty and holds an explicit
\* no-availability message.
C11_NoAvailabilityMessage ==
    (Returned /\ result.has_calendar /\ target_date # NoTarget /\ NoQualifyingSlot) =>
        /\ result.smart_suggestion # <<>>
        /\ SaysNoAvailability

\* a collaborator or a step of the started analysis failed
Failed ==
    \/ user = "db_error"
    \/ access = "denied"
    \/ (user = "ok" /\ target_date = InvalidTarget)

\* C12: no failure of the user lookup, of the provider call or of the parsing
\* of the target date leaves the analysis as an exception: every invocation
\* ends by returning a result object, whose reasoning is a non-empty error
\* description when something failed.
C12_NoExceptionPropagates ==
    /\ pc \in {"start", "fetch", "normalize", "day_before", "done"}
    /\ DOMAIN result = DOMAIN EmptyResult
    /\ (pc = "done" /\ Failed) => result.reasoning # ""

\* the analysis of an invalid target date string for a connected user returned
C12_Witness ==
    /\ pc = "done"
    /\ user = "ok"
    /\ target_date = InvalidTarget
    /\ provider_calls = 0
    /\ result.reasoning # ""

\* no normalized event starts on the target date
NoEventOnTarget ==
    /\ target_date # NoTarget
    /\ \A k \in 1..Len(processed_events) : DateOf(processed_events[k].start) # target_date

\* C13: when no normalized event starts on the target date the Slot Finder
\* returns exactly one slot, of kind free_day, from 09:00 to 19:00 of that
\* date, or from now + 30 minutes to 19:00 when that date is today.
C13_FreeDay ==
    (SlotsComputed /\ NoEventOnTarget) =>
        /\ Len(result.suggested_slots) = 1
        /\ result.suggested_slots[1].type = "free_day"
        /\ result.suggested_slots[1].date = target_date
        /\ MinuteOfDay(result.suggested_slots[1].start_time) =
              IF DateOf(slot_now) = target_date
              THEN (Wall(slot_now) + 30) % (24 * 60)
              ELSE business_start * 60
        /\ MinuteOfDay(result.suggested_slots[1].end_time) = business_end * 60

\* the between_events slots of the result, in order
BetweenEmitted ==
    SelectSeq(result.suggested_slots, LAMBDA s : s.type = "between_events")

\* the buffered gap between the k-th and the next event of the target date
GapAfter(day_events, k) ==
    (day_events[k + 1].start.t - buffer_time) - (day_events[k].end.t + buffer_time)

\* the slot covers the buffered gap after the k-th event and names both events
IsBetween(slot, day_events, k) ==
    /\ slot.type = "between_events"
    /\ slot.start_time = strftime_IMp(Plus(day_events[k].end, buffer_time))
    /\ slot.end_time = strftime_IMp(Plus(day_events[k + 1].start, 0 - buffer_time))
    /\ slot.note = <<"Between %s and %s", day_events[k].name, day_events[k + 1].name>>

\* two events 10:00-11:00 and 14:00-15:00 on the target date, 60-minute service
ScenarioB ==
    /\ target_date = 2
    /\ service_type = "haircut"
    /\ events = << RawEvent(TeamStandup, DateTime(2, 10, 0), DateTime(2, 11, 0)),
                   RawEvent(TeamDinner, DateTime(2, 14, 0), DateTime(2, 15, 0)) >>

\* C14: for consecutive events of the target date, sorted by start, a
\* between_events slot from end + 30 min to next start - 30 min is emitted
\* exactly when that gap is at least the time needed, and its note names both
\* events; events 10:00-11:00 and 14:00-15:00 with a 60-minute service give
\* between_events 11:30-13:30, no before_first_event and after_last_event
\* 15:30-19:00.
C14_BetweenEvents ==
    (SlotsComputed /\ target_date # NoTarget) =>
        LET day_events == DayEvents(processed_events, target_date)
            pairs == 1..(Len(day_events) - 1)
        IN  /\ \A k \in pairs :
                   (GapAfter(day_events, k) >= TotalTimeNeeded(service_type))
                       <=> \E q \in 1..Len(BetweenEmitted) :
                               IsBetween(BetweenEmitted[q], day_events, k)
            /\ Len(BetweenEmitted) =
                   Cardinality({k \in pairs :
                                   GapAfter(day_events, k) >= TotalTimeNeeded(service_type)})
            /\ ScenarioB =>
                   /\ Len(result.suggested_slots) = 2
                   /\ result.suggested_slots[1].type = "between_events"
                   /\ MinuteOfDay(result.suggested_slots[1].start_time) = 11 * 60 + 30
                   /\ MinuteOfDay(result.suggested_slots[1].end_time) = 13 * 60 + 30
                   /\ result.suggested_slots[1].note =
                          <<"Between %s and %s", TeamStandup, TeamDinner>>
                   /\ result.suggested_slots[2].type = "after_last_event"
                   /\ MinuteOfDay(result.suggested_slots[2].start_time) = 15 * 60 + 30
                   /\ MinuteOfDay(result.suggested_slots[2].end_time) = 19 * 60

\* the analysis of the two-event day returned
C14_Witness ==
    /\ pc = "done"
    /\ ScenarioB
    /\ Len(BetweenEmitted) = 1

\* the six reason categories, in the order they are tried
ReasonCategories ==
    << [keywords |-> CelebrationKeywords,
        reason   |-> "Special celebration where you'll want to look your absolute best"],
       [keywords |-> FirstImpressionKeywords,
        reason   |-> "Professional event where first impressions matter"],
       [keywords |-> RomanticKeywords,
        reason   |-> "Romantic occasion where looking great is a must"],
       [keywords |-> OnCameraKeywords,
        reason   |-> "You'll be photographed or on camera"],
       [keywords |-> SocialKeywords,
        reason   |-> "Social event with many people"],
       [keywords |-> GatheringKeywords,
        reason   |-> "Professional gathering where you'll meet important people"] >>

\* the categories a lower-cased name matches
MatchingCategories(name_lower) ==
    {c \in 1..Len(ReasonCategories) : AnyIn(ReasonCategories[c].keywords, name_lower)}

\* the reason of the first matching category, the generic one when none does
ClaimedReason(name_lower) ==
    IF MatchingCategories(name_lower) = {}
    THEN "Important event where looking polished matters"
    ELSE ReasonCategories[CHOOSE c \in MatchingCategories(name_lower) :
             \A d \in MatchingCategories(name_lower) : c <= d].reason

\* the name holds a keyword of a category or of the broader set
ClaimedImportant(name_lower) ==
    MatchingCategories(name_lower) # {} \/ AnyIn(IMPORTANT_EVENT_KEYWORDS, name_lower)

\* the k-th normalized event was flagged important
Flagged(k) ==
    \E q \in 1..Len(important_events) :
        /\ important_events[q].name = processed_events[k].name
        /\ important_events[q].start_dt = processed_events[k].start

\* C15: a normalized event is flagged important exactly when its lower-cased
\* name contains a keyword of one of the six reason categories or of the
\* broader keyword set, and its reason is that of the first matching
\* category, the generic reason when no category matches.
C15_KeywordClassifier ==
    SlotsComputed =>
        /\ \A k \in 1..Len(processed_events) :
               Flagged(k) <=> ClaimedImportant(Lower(processed_events[k].name))
        /\ \A q \in 1..Len(important_events) :
               important_events[q].why_important =
                   ClaimedReason(Lower(important_events[q].name))

\* the text of the response is a JSON array, fenced or not
IsJsonArray(toks) ==
    /\ json_loads(StripFences(toks)).ok
    /\ json_loads(StripFences(toks)).value.kind = "list"

\* C16: detect_important_events_with_llm never raises and always returns a
\* list, the empty one when the capability failed or its text is not a JSON
\* array; it calls the capability at most once, and not at all when the
\* event list is empty or no capability was supplied.
C16_DetectReturnsList ==
    /\ detect.pc \in {"idle", "called", "awaiting", "returned"}
    /\ detect.calls <= 1
    /\ (detect.events = <<>> \/ ~detect.llm) => detect.calls = 0
    /\ detect.pc = "returned" =>
           /\ detect.value.kind = "list"
           /\ (\/ detect.calls = 0
               \/ detect.response.kind = "raises"
               \/ ~IsJsonArray(detect.response.content)) => detect.value = EmptyList

\* C17: the result never holds more than 3 day-before suggestions, nor more
\* than 3 suggested slots, whatever the event feed.
C17_AtMostThreeSuggestions ==
    /\ Len(result.day_before_suggestions) <= 3
    /\ Len(result.suggested_slots) <= 3

\* 09:00 of the target date, and the window start the claim describes
BusinessStartOf(td) == td * (24 * 60) + business_start * 60

ClaimedWindowStart ==
    IF DateOf(slot_now) = target_date /\ Wall(slot_now) + 30 > BusinessStartOf(target_date)
    THEN Wall(slot_now) + 30
    ELSE BusinessStartOf(target_date)

\* C18: the window of the Slot Finder starts at max(09:00, now + 30 min) when
\* the target date is today, whatever 'now' is, and at 09:00 otherwise.
C18_WindowStart ==
    (SlotsComputed /\ target_date # NoTarget) =>
        Wall(SlotDayStart(target_date, slot_now)) = ClaimedWindowStart

\* the normalized list holds an all-day event of day d: midnight to midnight
AllDayOn(d) ==
    \E k \in 1..Len(processed_events) :
        /\ Wall(processed_events[k].start) = d * (24 * 60)
        /\ Wall(processed_events[k].end) = (d + 1) * (24 * 60)

\* C19: an all-day event is a full-day busy block: when the target date
\* holds one the Slot Finder emits no slot, and the Best-Slot Selector
\* answers the sentinel for a day that holds one, whatever the other events
\* of that day.
C19_AllDayBlocksDay ==
    /\ (SlotsComputed /\ target_date # NoTarget /\ AllDayOn(target_date)) =>
           result.suggested_slots = <<>>
    /\ Returned =>
           \A q \in 1..Len(result.day_before_suggestions) :
               AllDayOn(result.day_before_suggestions[q].suggested_day) =>
                   result.day_before_suggestions[q].suggested_time = NoAvailableTime

\* the larger and the smaller of two instants
Later(a, b) == IF a >= b THEN a ELSE b

Earlier(a, b) == IF a <= b THEN a ELSE b

\* one of the three gap classes of the day, cut to the window from ws to we,
\* is at least total minutes long; day_events is sorted by start
HasQualifyingGap(day_events, ws, we, total) ==
    LET n == Len(day_events)
        busy_start(k) == day_events[k].start.t - buffer_time
        busy_end(k) == day_events[k].end.t + buffer_time
    IN  \/ Earlier(we, busy_start(1)) - ws >= total
        \/ \E k \in 1..(n - 1) :
               Earlier(we, busy_start(k + 1)) - Later(ws, busy_end(k)) >= total
        \/ we - Later(ws, busy_end(n)) >= total

\* C20: the Best-Slot Selector answers "11:00 AM" for a day without events,
\* and the sentinel "No available time" exactly when the day has events and
\* none of the gaps before the first, between consecutive and after the last
\* buffered busy period, within 09:00-19:00, is at least the time needed.
C20_DefaultAndSentinel ==
    Returned =>
        \A q \in 1..Len(result.day_before_suggestions) :
            LET day == result.day_before_suggestions[q].suggested_day
                time == result.day_before_suggestions[q].suggested_time
                day_events == DayEvents(processed_events, day)
            IN  /\ day_events = <<>> => time = ElevenAM
                /\ day_events # <<>> =>
                       (time = NoAvailableTime <=>
                            ~HasQualifyingGap(day_events,
                                              BestDayStart(TargetDay(day), now).t,
                                              BestDayEnd(TargetDay(day)).t,
                                              TotalTimeNeeded(service_type)))

\* the qualifying gaps of a day of a day-before suggestion, as the selector
\* collects them
GapsOf(day) ==
    AvailableGaps(BusyPeriods(DayEvents(processed_events, day), buffer_time),
                  BestDayStart(TargetDay(day), now), BestDayEnd(TargetDay(day)),
                  TotalTimeNeeded(service_type))

\* the instants H:00 of the day, H in 10..14, that lie in a qualifying gap
PriorityInstants(day) ==
    {day * (24 * 60) + h * 60 : h \in {h \in 10..14 :
        \E g \in 1..Len(GapsOf(day)) :
            /\ GapsOf(day)[g].start.t <= day * (24 * 60) + h * 60
            /\ day * (24 * 60) + h * 60 < GapsOf(day)[g].end.t}}

\* the text the selector returns for an instant
TimeText(instant) == lstrip0(strftime_IMp(Localize(instant)))

\* C21: whenever a qualifying gap of the day contains an instant H:00 with H
\* in 10..14, the Best-Slot Selector returns the earliest such instant over
\* all qualifying gaps; the half-hour fallback is used only when there is
\* none.
C21_PriorityHour ==
    Returned =>
        \A q \in 1..Len(result.day_before_suggestions) :
            LET day == result.day_before_suggestions[q].suggested_day
                time == result.day_before_suggestions[q].suggested_time
            IN  (DayEvents(processed_events, day) # <<>> /\ PriorityInstants(day) # {}) =>
                    time = TimeText(CHOOSE x \in PriorityInstants(day) :
                                       \A y \in PriorityInstants(day) : x <= y)

\* the instant a returned time of day denotes on the day
InstantOf(day, time) == day * (24 * 60) + MinuteOfDay(time)

\* C22: when no qualifying gap contains a priority hour the Best-Slot Selector
\* returns the start of the first qualifying gap rounded up to the nearest
\* half hour: a :00 or :30 time that is not earlier than the start of the
\* gap and less than 30 minutes after it.
C22_HalfHourFallback ==
    Returned =>
        \A q \in 1..Len(result.day_before_suggestions) :
            LET day == result.day_before_suggestions[q].suggested_day
                time == result.day_before_suggestions[q].suggested_time
            IN  (/\ DayEvents(processed_events, day) # <<>>
                 /\ GapsOf(day) # <<>>
                 /\ PriorityInstants(day) = {}) =>
                    /\ time.m \in {0, 30}
                    /\ InstantOf(day, time) >= GapsOf(day)[1].start.t
                    /\ InstantOf(day, time) < GapsOf(day)[1].start.t + 30

\* C23: when the day given to the Best-Slot Selector is today, every time it
\* returns other than the sentinel is at or after now + 1 hour, whether the
\* day has events or not.
C23_TodayNotBeforeNowPlusHour ==
    Returned =>
        \A q \in 1..Len(result.day_before_suggestions) :
            LET day == result.day_before_suggestions[q].suggested_day
                time == result.day_before_suggestions[q].suggested_time
            IN  (day = DateOf(now) /\ time # NoAvailableTime) =>
                    InstantOf(day, time) >= now.t + 60

\* the event names one part of the composed text cites
NamesIn(part) ==
    CASE part[1] = "I see you have %s at %s." -> {part[2]}
      [] part[1] = "I see from your calendar you have %s at %s, and %s at %s." ->
             {part[2], part[4]}
      [] part[1] = "I see you have %s events that day, starting with %s at %s." -> {part[3]}
      [] part[1] = "I'd suggest around %s - %s." ->
             {part[3][k] : k \in 2..Len(part[3])}
      [] part[1] = "I noticed you have %s on %s! How about getting your %s done the day before on %s around %s? That way you'll look fresh and have plenty of time to get ready for your big event!" ->
             {part[2]}
      [] OTHER -> {}

\* the composed text cites the name, in whatever case
Cites(text, name) ==
    \E k \in 1..Len(text) : \E n \in NamesIn(text[k]) : Lower(n) = Lower(name)

\* the text has a part of the given format
HasPart(text, fmt) == \E k \in 1..Len(text) : text[k][1] = fmt

\* C24: when the first suggested slot is between two events the composed
\* text cites the names of both; when it is free_day the text recommends late
\* morning or early afternoon; for any other kind the text cites the note of
\* the slot.
C24_SlotPhrasing ==
    (Returned /\ result.suggested_slots # <<>>) =>
        LET slot == result.suggested_slots[1]
            text == result.smart_suggestion
        IN  /\ slot.type = "between_events" =>
                   Cites(text, slot.note[2]) /\ Cites(text, slot.note[3])
            /\ slot.type = "free_day" =>
                   HasPart(text, "Your calendar is free that day! I'd suggest late morning or early afternoon when you have plenty of time to enjoy your %s.")
            /\ slot.type \notin {"between_events", "free_day"} =>
                   \E k \in 1..Len(text) :
                       /\ text[k][1] = "I'd suggest around %s - %s."
                       /\ text[k][3] = LowerNote(slot.note)

\* C25: the normalized event list is in ascending order of start time for
\* every raw feed, whatever the order in which the provider delivered the
\* events.
C25_NormalizedSortedByStart ==
    SlotsComputed =>
        \A k \in 1..(Len(processed_events) - 1) :
            processed_events[k].start.t <= processed_events[k + 1].start.t

\* C26: every event of the normalized list satisfies start <= end, so a raw
\* event whose end precedes its start reaches neither the Slot Finder, the
\* Best-Slot Selector nor the result.
C26_StartNotAfterEnd ==
    SlotsComputed =>
        /\ \A k \in 1..Len(processed_events) :
               processed_events[k].start.t <= processed_events[k].end.t
        /\ Len(result.events_on_date) <=
               Cardinality({k \in 1..Len(events) :
                               /\ WellFormed(events[k])
                               /\ ParseTime(events[k].start).t <= ParseTime(events[k].end).t})

\* a raw time, and a raw event, re-expressed in the reference timezone: the
\* same instant, read on the reference wall clock
InReference(raw) ==
    IF raw.kind = "dateTime" THEN [raw EXCEPT !.wall = raw.wall - raw.off, !.off = 0]
    ELSE raw

EventInReference(event) ==
    [event EXCEPT !.start = InReference(event.start), !.end = InReference(event.end)]

\* C27: day membership and hour of day are evaluated in the reference
\* timezone: the slots of the target date and the day-before suggestions are
\* those of the same feed with every event time converted to the reference
\* timezone, so an event with another UTC offset belongs to the day its
\* converted start falls on.
C27_ReferenceTimezone ==
    Returned =>
        LET converted == [k \in 1..Len(events) |-> EventInReference(events[k])]
            reference == Analysis(converted, target_date, service_type, now, slot_now)
        IN  /\ result.suggested_slots = reference.suggested_slots
            /\ result.day_before_suggestions = reference.day_before_suggestions

\* the appointment from T to T + total lies inside one qualifying gap of the
\* day and meets no buffered busy period of the events of the day
FitsInFreeTime(day, T, total) ==
    /\ \E g \in 1..Len(GapsOf(day)) :
           GapsOf(day)[g].start.t <= T /\ T + total <= GapsOf(day)[g].end.t
    /\ \A k \in 1..Len(DayEvents(processed_events, day)) :
           LET e == DayEvents(processed_events, day)[k]
           IN  ~(T < e.end.t + buffer_time /\ e.start.t - buffer_time < T + total)

\* C28: whenever the Best-Slot Selector returns a time T other than the
\* sentinel for a day that has events, the interval from T to T +
\* total_time_needed lies inside one qualifying gap and meets no buffered
\* busy period of the events of that day.
C28_AppointmentFits ==
    Returned =>
        \A q \in 1..Len(result.day_before_suggestions) :
            LET day == result.day_before_suggestions[q].suggested_day
                time == result.day_before_suggestions[q].suggested_time
            IN  (DayEvents(processed_events, day) # <<>> /\ time # NoAvailableTime) =>
                    FitsInFreeTime(day, InstantOf(day, time), TotalTimeNeeded(service_type))

\* C29: the slots the Slot Finder returns for a target date are in strictly
\* ascending order of start time and pairwise disjoint (each slot ends no
\* later than the next one starts), for every list of events with
\* start <= end, overlapping events included.
C29_SlotsAscendingDisjoint ==
    (/\ SlotsComputed
     /\ target_date # NoTarget
     /\ \A k \in 1..Len(processed_events) :
            processed_events[k].start.t <= processed_events[k].end.t) =>
        \A q \in 1..(Len(result.suggested_slots) - 1) :
            /\ SlotStart(result.suggested_slots[q]) < SlotStart(result.suggested_slots[q + 1])
            /\ SlotEnd(result.suggested_slots[q]) <= SlotStart(result.suggested_slots[q + 1])

\* C30: when the analysis is invoked without a target date (7-day horizon),
\* suggested_slots and events_on_date are empty whatever the events are, while
\* important_events and day_before_suggestions are computed over the feed.
C30_NoTargetDate ==
    (Returned /\ target_date = NoTarget) =>
        /\ result.suggested_slots = <<>>
        /\ result.events_on_date = <<>>
        /\ result.important_events = NormalizeAll(events, now).important
        /\ result.day_before_suggestions =
               DayBeforeAll(NormalizeAll(events, now).important,
                            NormalizeAll(events, now).processed, service_type, now)

\* a returned analysis without target date whose feed held events, one of them
\* important with a day before it
C30_Witness ==
    /\ Returned
    /\ target_date = NoTarget
    /\ Len(processed_events) >= 2
    /\ Len(result.important_events) >= 1
    /\ Len(result.day_before_suggestions) >= 1
    /\ result.suggested_slots = <<>>
    /\ result.events_on_date = <<>>
====
